---------------------------- MODULE Spec2Model ----------------------------
(***************************************************************************)
(* State-machine model of components of hexrd:                             *)
(*   - fitting/calibration/structureless.py  (StructurelessCalibrator)     *)
(*   - imageseries/stats.py                  (chunked frame statistics)    *)
(*   - config/material.py                    (MaterialConfig)              *)
(*   - instrument/cylindrical_detector.py    (CylindricalDetector)         *)
(*   - ipfcolor/sphere_sector.py             (sector)                      *)
(* Each component has its own specification: SpecCal (setters and          *)
(* run_calibration), SpecResid (evaluation of the residual), SpecStats     *)
(* (calls of max and median), SpecRanges (_chunk_ranges over a partition), *)
(* SpecRows (the row bands of percentile), SpecMat, SpecEta (gradient of   *)
(* the eta field), SpecMemo (sizes of the memoization caches) and          *)
(* SpecSector; the variables of the other components are held at their     *)
(* idle values.                                                            *)
(***************************************************************************)
EXTENDS Integers, Sequences, FiniteSets, TLC

VARIABLES
    \* ---- StructurelessCalibrator (structureless.py) ----
    _instr,                    \* self._instr
    _data,                     \* self._data
    _engineering_constraints,  \* self._engineering_constraints
    params,                    \* self.params
    res,                       \* self.res
    calOp,                     \* the last operation on the calibrator and its outcome
    \* ---- imageseries statistics (stats.py) ----
    ims,                       \* the image series passed to the functions
    STATS_BUFFER,              \* module constant, set from the free memory at import
    img,                       \* the caller's accumulator image of the chunk protocol
    sess,                      \* the chunk protocol the caller runs on img
    statOp,                    \* the last call of a statistics function
    \* ---- a caller stepping through _chunk_ranges (stats.py) ----
    crRows,                    \* nrows
    crChunks,                  \* nchunk
    crOut,                     \* the ranges returned for chunk = 0, 1, ... so far
    \* ---- MaterialConfig (config/material.py) ----
    cfg,                       \* self._cfg: the configuration tree and working_dir
    fs,                        \* the paths that exist in the file system
    _materials,                \* self._materials, or NoAttr while not set
    matHist,                   \* loader calls so far; whether materials was read
    matOp,                     \* the last operation on the MaterialConfig
    \* ---- StructurelessCalibrator, residual evaluation (structureless.py) ----
    instrument,                \* self.instr: the active X-ray source and the geometry
    data,                      \* self.data as source -> rings -> detector -> measured pixels
    _tth_distortion,           \* self._tth_distortion
    resOp,                     \* the last residual-related call and its outcome
    \* ---- CylindricalDetector, eta gradient (cylindrical_detector.py) ----
    etaGeom,                   \* the geometry that fixes the eta field of the panel
    etaOp,                     \* the last call of _pixel_eta_gradient and its result
    \* ---- CylindricalDetector, memoization caches (cylindrical_detector.py) ----
    cache_maxsize,             \* the capacity of the cache of each memoized function
    memoOp,                    \* the last call of update_memoization_sizes
    \* ---- sector (ipfcolor/sphere_sector.py) ----
    sector,                    \* the sector object: symbols and triangle counts
    dir3,                      \* the caller's array of directions
    hueOp,                     \* the last call on the sector and its result
    \* ---- percentile, loop over the row bands (stats.py) ----
    rbSeries,                  \* the shape of the series, the frames used and the item size
    rbNrpb,                    \* the number of rows per band
    rbI,                       \* the variable i of _row_ranges
    rbOut,                     \* the bands yielded so far
    rbPc                       \* where percentile is: in the loop, or returned

calVars == <<_instr, _data, _engineering_constraints, params, res, calOp>>
statVars == <<ims, STATS_BUFFER, img, sess, statOp>>

crVars == <<crRows, crChunks, crOut>>

matVars == <<cfg, fs, _materials, matHist, matOp>>

residVars == <<instrument, data, _tth_distortion, resOp>>

etaVars == <<etaGeom, etaOp>>

memoVars == <<cache_maxsize, memoOp>>

sectorVars == <<sector, dir3, hueOp>>

rowsVars == <<rbSeries, rbNrpb, rbI, rbOut, rbPc>>

vars == <<calVars, statVars, crVars, matVars, residVars, etaVars, memoVars, sectorVars, rowsVars>>

\* What an operation of one component leaves alone in the others.
notCal == <<statVars, crVars, matVars, residVars, etaVars, memoVars, sectorVars, rowsVars>>
notStats == <<calVars, crVars, matVars, residVars, etaVars, memoVars, sectorVars, rowsVars>>
notRanges == <<calVars, statVars, matVars, residVars, etaVars, memoVars, sectorVars, rowsVars>>
notMat == <<calVars, statVars, crVars, residVars, etaVars, memoVars, sectorVars, rowsVars>>
notResid == <<calVars, statVars, crVars, matVars, etaVars, memoVars, sectorVars, rowsVars>>
notEta == <<calVars, statVars, crVars, matVars, residVars, memoVars, sectorVars, rowsVars>>
notMemo == <<calVars, statVars, crVars, matVars, residVars, etaVars, sectorVars, rowsVars>>
notSector == <<calVars, statVars, crVars, matVars, residVars, etaVars, memoVars, rowsVars>>
notRows == <<calVars, statVars, crVars, matVars, residVars, etaVars, memoVars, sectorVars>>

(***************************************************************************)
(*                      StructurelessCalibrator                            *)
(***************************************************************************)

\* Python's None, as a tag value distinct from the string 'None'.
NoneVal == "<None>"

\* Values a caller may pass as engineering_constraints.
Tags == {NoneVal, "None", "TARDIS", "tardis", "foo"}

\* Instruments and datasets a caller may pass (object identities).
Instrs == {"instrA", "instrB"}
Datas == {"dataA", "dataB"}

\* Not yet assigned attribute (self.res before the first run_calibration).
NoRes == [kind |-> "unset"]

\* structureless.py:152-156, the list valid_settings of the setter.
valid_settings_with_foo == {NoneVal, "None", "TARDIS", "foo"}
valid_settings == {NoneVal, "None", "TARDIS"}

\* lmfit_param_handling.add_engineering_constraints: the TARDIS constraint is
\* injected exactly for the tag "TARDIS".
add_engineering_constraints(tag) == tag = "TARDIS"

\* structureless.py:50-60. A parameter collection built from the instrument
\* and the measured angles of the dataset, with the engineering constraint of
\* the stored tag; nothing of it is fitted yet.
make_lmfit_params_keep_fitted(ins, dat, tag) ==
    [instr |-> ins, data |-> dat,
     tardis |-> add_engineering_constraints(tag), fitted |-> params.fitted]
make_lmfit_params(ins, dat, tag) ==
    [instr |-> ins, data |-> dat,
     tardis |-> add_engineering_constraints(tag), fitted |-> FALSE]

\* The record kept of an operation: its name, argument and outcome, and the
\* tag and parameter collection it found.
OpRec(name, arg, err) ==
    [name |-> name, arg |-> arg, err |-> err,
     pre_tag |-> _engineering_constraints, pre_params |-> params]

\* structureless.py:35-48, the state after __init__: the arguments are stored
\* as given (the tag is not validated) and the parameters are built.
CalInit ==
    \E ins \in Instrs, dat \in Datas, tag \in Tags :
        /\ _instr = ins
        /\ _data = dat
        /\ _engineering_constraints = tag
        /\ params = [instr |-> ins, data |-> dat,
                     tardis |-> add_engineering_constraints(tag), fitted |-> FALSE]
        /\ res = NoRes
        /\ calOp = [name |-> "init", arg |-> tag, err |-> "ok",
                    pre_tag |-> tag,
                    pre_params |-> [instr |-> ins, data |-> dat,
                                    tardis |-> add_engineering_constraints(tag),
                                    fitted |-> FALSE]]

\* structureless.py:147-166, engineering_constraints.setter.
\*   line 149-150: an equal value returns at once;
\*   line 157-163: a value outside valid_settings raises (the message is built
\*                 with map(valid_settings, str), which raises TypeError
\*                 before Exception(msg) is constructed);
\*   line 165-166: otherwise the tag is stored and the parameters are rebuilt.
engineering_constraints_setter(v) ==
    IF v = _engineering_constraints
    THEN /\ calOp' = OpRec("set_engineering_constraints", v, "ok")
         /\ UNCHANGED <<_instr, _data, _engineering_constraints, params, res, notCal>>
    ELSE IF v \notin valid_settings
    THEN /\ calOp' = OpRec("set_engineering_constraints", v, "TypeError")
         /\ UNCHANGED <<_instr, _data, _engineering_constraints, params, res, notCal>>
    ELSE /\ _engineering_constraints' = v
         /\ params' = make_lmfit_params(_instr, _data, v)
         /\ calOp' = OpRec("set_engineering_constraints", v, "ok")
         /\ UNCHANGED <<_instr, _data, res, notCal>>

\* structureless.py:172-175, instr.setter.
instr_setter(ins) ==
    /\ _instr' = ins
    /\ params' = make_lmfit_params(ins, _data, _engineering_constraints)
    /\ calOp' = OpRec("set_instr", ins, "ok")
    /\ UNCHANGED <<_data, _engineering_constraints, res, notCal>>

\* structureless.py:181-184, data.setter.
data_setter(dat) ==
    /\ _data' = dat
    /\ params' = make_lmfit_params(_instr, dat, _engineering_constraints)
    /\ calOp' = OpRec("set_data", dat, "ok")
    /\ UNCHANGED <<_instr, _engineering_constraints, res, notCal>>

\* Option keys a caller passes in odict, each with the caller's value.
CallerKeys == {"max_nfev", "ftol"}
Odicts == { [k \in S |-> "caller"] : S \in SUBSET CallerKeys }
Methods == {"least_squares", "nelder"}

\* structureless.py:109-118, the defaults of the least_squares branch.
least_squares_defaults ==
    [ftol |-> "1e-8", xtol |-> "1e-8", gtol |-> "1e-8", verbose |-> "2",
     max_nfev |-> "1000", x_scale |-> "jac", method |-> "trf",
     jac |-> "3-point"]

\* dict.update (structureless.py:119): keys of b replace those of a.
dict_update(a, b) ==
    [k \in (DOMAIN a) \cup (DOMAIN b) |-> IF k \in DOMAIN b THEN b[k] ELSE a[k]]

\* How a fit ends: converged, or stopped at the evaluation budget.
FitOutcomes == {"converged", "max_nfev"}

\* structureless.py:131, self.params = self.res.params.
params_after_fit_stale(result) == params
params_after_fit(result) == result.params

\* structureless.py:99-132, run_calibration. The least_squares branch merges
\* odict over the defaults; the other branch passes max_nfev=50000 together
\* with **odict, which raises TypeError (duplicate keyword) when odict holds
\* max_nfev. The result of the fitter is stored in res and returned; on
\* return params is the result's parameter collection.
run_calibration(method, odict, outcome) ==
    IF method = "least_squares"
    THEN LET fdict == dict_update(least_squares_defaults, odict)
             result == [kind |-> "result", method |-> method, kws |-> fdict,
                        stopped |-> outcome,
                        params |-> [params EXCEPT !.fitted = TRUE]]
         IN /\ res' = result
            /\ params' = params_after_fit(result)
            /\ calOp' = OpRec("run_calibration", method, "ok")
                            @@ [odict |-> odict, ret |-> result]
            /\ UNCHANGED <<_instr, _data, _engineering_constraints, notCal>>
    ELSE IF "max_nfev" \in DOMAIN odict
    THEN /\ calOp' = OpRec("run_calibration", method, "TypeError")
                         @@ [odict |-> odict, ret |-> NoRes]
         /\ UNCHANGED <<_instr, _data, _engineering_constraints, params, res, notCal>>
    ELSE LET kws == dict_update([max_nfev |-> "50000"], odict)
             result == [kind |-> "result", method |-> method, kws |-> kws,
                        stopped |-> outcome,
                        params |-> [params EXCEPT !.fitted = TRUE]]
         IN /\ res' = result
            /\ params' = params_after_fit(result)
            /\ calOp' = OpRec("run_calibration", method, "ok")
                            @@ [odict |-> odict, ret |-> result]
            /\ UNCHANGED <<_instr, _data, _engineering_constraints, notCal>>

\* structureless.py:186-188, the property residual: calc_residual at
\* self.params. The vector itself is followed in SpecResid; here the read
\* is recorded with the parameter collection it was evaluated at and with
\* the call that preceded it.
residual ==
    /\ calOp' = OpRec("residual", NoneVal, "ok")
                    @@ [ret |-> [kind |-> "residual", at |-> params],
                        after |-> <<calOp.name, calOp.err>>]
    /\ UNCHANGED <<_instr, _data, _engineering_constraints, params, res, notCal>>

SetEngineeringConstraints == \E v \in Tags : engineering_constraints_setter(v)
SetInstr == \E ins \in Instrs : instr_setter(ins)
SetData == \E dat \in Datas : data_setter(dat)
RunCalibration ==
    \E m \in Methods, od \in Odicts, outcome \in FitOutcomes :
        run_calibration(m, od, outcome)
GetResidual == residual

CalNext ==
    \/ SetEngineeringConstraints
    \/ SetInstr
    \/ SetData
    \/ RunCalibration
    \/ GetResidual

\* The calibrator while another component is exercised.
CalIdle ==
    /\ _instr = "instrA" /\ _data = "dataA" /\ _engineering_constraints = NoneVal
    /\ params = [instr |-> "instrA", data |-> "dataA", tardis |-> FALSE,
                 fitted |-> FALSE]
    /\ res = NoRes
    /\ calOp = [name |-> "idle"]

\* ---- Claims on the calibrator ----

IsSetTag == calOp.name = "set_engineering_constraints"
CalUntouched == /\ _engineering_constraints = calOp.pre_tag
                /\ params = calOp.pre_params

\* C1 (as stated): assigning engineering_constraints any value other than
\* None or "TARDIS" fails and leaves the tag and the parameters unchanged;
\* assigning "TARDIS" or None succeeds.
C1_AsStated ==
    IsSetTag =>
        /\ calOp.arg \notin {NoneVal, "TARDIS"} =>
               calOp.err # "ok" /\ CalUntouched
        /\ calOp.arg \in {NoneVal, "TARDIS"} => calOp.err = "ok"

\* C1 (amended): assigning a value that is none of None, 'None', "TARDIS" and
\* differs from the stored tag fails and leaves the tag and the parameters
\* unchanged; assigning None, 'None' or "TARDIS" succeeds and makes it the
\* stored tag; assigning the stored tag again succeeds and changes nothing.
C1_InvalidTagRejected ==
    IsSetTag =>
        /\ (calOp.arg \notin {NoneVal, "None", "TARDIS"} /\ calOp.arg # calOp.pre_tag) =>
               calOp.err # "ok" /\ CalUntouched
        /\ calOp.arg \in {NoneVal, "None", "TARDIS"} =>
               calOp.err = "ok" /\ _engineering_constraints = calOp.arg
        /\ calOp.arg = calOp.pre_tag => calOp.err = "ok" /\ CalUntouched

\* C1 witness: a rejected assignment of "tardis" on a calibrator whose
\* parameters were fitted under the tag "TARDIS".
C1_Witness ==
    /\ IsSetTag /\ calOp.arg = "tardis" /\ calOp.err # "ok"
    /\ calOp.pre_tag = "TARDIS" /\ params.fitted

IsRebuildingSet ==
    \/ calOp.name \in {"set_instr", "set_data"} /\ calOp.err = "ok"
    \/ IsSetTag /\ calOp.err = "ok" /\ calOp.arg # calOp.pre_tag

\* C2 (as stated): every successful reassignment of instr, data or
\* engineering_constraints, also of an equal value, leaves a rebuilt
\* parameter collection that holds no fitted values.
C2_AsStated ==
    (calOp.name \in {"set_instr", "set_data", "set_engineering_constraints"}
        /\ calOp.err = "ok") => ~params.fitted

\* C2 (amended): every reassignment of instr or data (also of an equal value),
\* and every successful assignment of an engineering_constraints value that
\* differs from the stored tag, leaves a parameter collection rebuilt from the
\* current instrument, dataset and tag that holds no fitted values.
C2_SettersRebuildParams ==
    IsRebuildingSet =>
        /\ ~params.fitted
        /\ params.instr = _instr /\ params.data = _data
        /\ params.tardis = (_engineering_constraints = "TARDIS")

\* C2 witness: instr was reassigned to the instrument already stored while the
\* parameters held fitted values.
C2_Witness ==
    /\ calOp.name = "set_instr" /\ calOp.pre_params.fitted
    /\ calOp.arg = calOp.pre_params.instr /\ ~params.fitted

(***************************************************************************)
(*                      imageseries statistics                             *)
(***************************************************************************)

\* Bounds of the series and of the calls.
MaxRows == 3
MaxFrames == 2
NCols == 1
MaxChunks == 3
MaxBuffer == 3

\* Frame f of a series has a level L[f] of Levels, lowered by 4 per row and
\* by 2 per column, so that rows, columns and frames differ, a later frame
\* may lie above or below an earlier one, and a series may be negative
\* throughout. All pixel values are even, so that the mean of the two middle
\* values np.median takes over an even number of frames is an integer.
Levels == {-2, 0, 2}

Rows(nr) == 0 .. (nr - 1)
Cols(nc) == 0 .. (nc - 1)

MakeFrame(level, nr, nc) ==
    [r \in Rows(nr) |-> [c \in Cols(nc) |-> level - 4 * r - 2 * c]]

\* The series: its frames (ims[i] is frames[i+1]), ims.shape and
\* ims.dtype.itemsize.
SeriesSet ==
    { [frames |-> [f \in DOMAIN L |-> MakeFrame(L[f], nr, NCols)],
       shape |-> <<nr, NCols>>, itemsize |-> 1] :
         nr \in 1..MaxRows, L \in UNION { [1..k -> Levels] : k \in 1..MaxFrames } }

len(s) == Len(s.frames)
Min2(a, b) == IF a <= b THEN a ELSE b

\* stats.py:104-107, _nframes.
_nframes(s, nframes) ==
    LET mynf == len(s) IN IF nframes > 0 THEN Min2(mynf, nframes) ELSE mynf

\* stats.py:120-136, _chunk_ranges.
_chunk_ranges_no_rem(nrows, nchunk, chunk) ==
    LET csize == nrows \div nchunk
    IN <<chunk * csize, chunk * csize + csize>>
_chunk_ranges(nrows, nchunk, chunk) ==
    LET csize == nrows \div nchunk
        rem == nrows % nchunk
    IN IF chunk < rem
       THEN <<chunk * (csize + 1), chunk * (csize + 1) + csize + 1>>
       ELSE <<chunk * csize + rem, chunk * csize + rem + csize>>

\* stats.py:110-117 with the rectangle of stats.py:78-79/152-153: the values
\* of pixel (r, c) in the first nframes frames.
_toarray(s, nframes, r, c) == [f \in 1..nframes |-> s.frames[f][r][c]]

SeqRange(a) == { a[k] : k \in DOMAIN a }

\* np.max(a, axis=0) at one pixel.
np_max(a) == CHOOSE v \in SeqRange(a) : \A w \in SeqRange(a) : w <= v

\* np.min(a, axis=0) at one pixel.
np_min(a) == CHOOSE v \in SeqRange(a) : \A w \in SeqRange(a) : v <= w

\* The k-th smallest (k = 1..Len(a)) value of a.
KthSmallest(a, k) ==
    CHOOSE v \in SeqRange(a) :
        /\ Cardinality({ j \in DOMAIN a : a[j] < v }) < k
        /\ Cardinality({ j \in DOMAIN a : a[j] <= v }) >= k

\* np.median(a, axis=0) at one pixel: the middle value, or the mean of the
\* two middle values.
np_median(a) ==
    LET n == Len(a)
    IN IF n % 2 = 1
       THEN KthSmallest(a, (n + 1) \div 2)
       ELSE (KthSmallest(a, n \div 2) + KthSmallest(a, n \div 2 + 1)) \div 2

ApplyOp(op, a) ==
    CASE op = "max" -> np_max(a)
      [] op = "median" -> np_median(a)
      [] op = "min" -> np_min(a)

\* stats.py:155 and stats.py:80, img[r0:r1, :] = vals: rows r0..r1-1 of img
\* are overwritten, the other rows are kept.
write_band_fresh(image, r0, r1, vals) ==
    [r \in DOMAIN image |->
        IF r0 <= r /\ r < r1 THEN vals[r] ELSE [c \in DOMAIN image[r] |-> 0]]
write_band_add(image, r0, r1, vals) ==
    [r \in DOMAIN image |->
        IF r0 <= r /\ r < r1
        THEN [c \in DOMAIN image[r] |-> image[r][c] + vals[r][c]]
        ELSE image[r]]
write_band(image, r0, r1, vals) ==
    [r \in DOMAIN image |-> IF r0 <= r /\ r < r1 THEN vals[r] ELSE image[r]]

\* The reduction of the first nf frames over rows r0..r1-1.
BandValues(op, s, nf, r0, r1) ==
    [r \in r0 .. (r1 - 1) |->
        [c \in Cols(s.shape[2]) |-> ApplyOp(op, _toarray(s, nf, r, c))]]

\* np.maximum(a, b) of two images.
np_maximum(a, b) ==
    [r \in DOMAIN a |-> [c \in DOMAIN a[r] |->
        IF a[r][c] >= b[r][c] THEN a[r][c] ELSE b[r][c]]]

\* stats.py:139-157, _chunk_op: the frame count passed in is replaced by
\* len(ims) on line 146; the band is assigned, not merged with what the
\* image held.
_chunk_op_keep_larger(op, s, nf, i, nchunk, image) ==
    LET nf2 == len(s)
        rr == _chunk_ranges(s.shape[1], nchunk, i)
    IN np_maximum(image, write_band(image, rr[1], rr[2],
                                     BandValues(op, s, nf2, rr[1], rr[2])))
_chunk_op(op, s, nf, i, nchunk, image) ==
    LET nf2 == len(s)
        rr == _chunk_ranges(s.shape[1], nchunk, i)
    IN write_band(image, rr[1], rr[2], BandValues(op, s, nf2, rr[1], rr[2]))

\* np.zeros((nr, nc)).
Zeros(nr, nc) == [r \in Rows(nr) |-> [c \in Cols(nc) |-> 0]]

\* stats.py:33-35, the loop of max over chunks i .. nchunks-1.
RECURSIVE max_loop(_, _, _, _, _)
max_loop(s, nf, i, nchunks, image) ==
    IF i >= nchunks THEN image
    ELSE max_loop(s, nf, i + 1, nchunks, _chunk_op("max", s, nf, i, nchunks, image))

\* stats.py:28-31, the number of chunks max computes when chunk is None.
max_nchunks(s, nframes) ==
    LET nf == _nframes(s, nframes)
        mem == nf * s.shape[1] * s.shape[2] * s.itemsize
    IN 1 + mem \div STATS_BUFFER

\* stats.py:24-39, max with chunk=None.
max_auto(s, nframes) ==
    LET nf == _nframes(s, nframes)
        nchunks == max_nchunks(s, nframes)
    IN max_loop(s, nf, 0, nchunks, Zeros(s.shape[1], s.shape[2]))

\* stats.py:44-46, the loop of _old_max over the frames i .. nf-1 (ims[i] is
\* frames[i+1]).
RECURSIVE _old_max_loop(_, _, _, _)
_old_max_loop(s, nf, i, imgmax) ==
    IF i >= nf THEN imgmax
    ELSE _old_max_loop(s, nf, i + 1, np_maximum(imgmax, s.frames[i + 1]))

\* stats.py:42-47, _old_max: the running maximum from ims[0] on.
_old_max(s, nframes) ==
    _old_max_loop(s, _nframes(s, nframes), 1, s.frames[1])

\* stats.py:24-39, max with chunk = (i, nchunk, image).
max_chunk(s, nframes, i, nchunk, image) ==
    _chunk_op("max", s, _nframes(s, nframes), i, nchunk, image)

\* stats.py:72-82, median with chunk = (i, nchunk, image).
median_chunk(s, nframes, i, nchunk, image) ==
    LET nf == _nframes(s, nframes)
        rr == _chunk_ranges(s.shape[1], nchunk, i)
    IN write_band(image, rr[1], rr[2], BandValues("median", s, nf, rr[1], rr[2]))

\* stats.py:172-176, _rows_in_buffer: int(np.ceil(STATS_BUFFER/rsize)).
_rows_in_buffer(ncol, rsize) == (STATS_BUFFER + rsize - 1) \div rsize

\* stats.py:160-169, _row_ranges: the bands of m rows from row i on.
\* stats.py:163-168, the band yielded at row i.
row_range(n, m, i) == IF i + m <= n THEN <<i, i + m>> ELSE <<i, n>>
RECURSIVE _row_ranges(_, _, _)
_row_ranges(n, m, i) ==
    IF i >= n THEN <<>>
    ELSE <<row_range(n, m, i)>> \o _row_ranges(n, m, i + m)

RECURSIVE percentile_loop(_, _, _, _, _)
percentile_loop(op, s, nf, rrs, image) ==
    IF rrs = <<>> THEN image
    ELSE percentile_loop(op, s, nf, Tail(rrs),
             write_band(image, Head(rrs)[1], Head(rrs)[2],
                        BandValues(op, s, nf, Head(rrs)[1], Head(rrs)[2])))

\* The reduction np.percentile(a, pct, axis=0) is for the percentiles 0, 50, 100.
PctOp(pct) == CASE pct = 0 -> "min" [] pct = 50 -> "median" [] pct = 100 -> "max"

\* stats.py:85-100, percentile.
percentile(s, pct, nframes) ==
    LET nf == _nframes(s, nframes)
        nr == s.shape[1]
        nc == s.shape[2]
        nrpb == _rows_in_buffer(nframes, nf * nc * s.itemsize)
    IN percentile_loop(PctOp(pct), s, nf, _row_ranges(nr, nrpb, 0), Zeros(nr, nc))

ChunkCounts == 1 .. MaxChunks
FrameCounts == 0 .. (MaxFrames + 1)

\* The record of a call: the function, its chunk (band index and count, or
\* none), its frame count, the accumulator it was given, the image it
\* returned, and whether that image is the accumulator object.
StatRec(name, i, nchunk, nframes, pre, ret, same) ==
    [name |-> name, chunk |-> i, nchunk |-> nchunk, nframes |-> nframes,
     pre_img |-> pre, ret |-> ret, ret_is_img |-> same]

\* chunk is None (stats.py:27, stats.py:69).
NoChunk == -1

\* The state after import of the module, with a series at hand: the buffer
\* is whatever half of the free memory was, and no call has been made.
StatsInit ==
    /\ ims \in SeriesSet
    /\ STATS_BUFFER \in 1 .. MaxBuffer
    /\ img = Zeros(ims.shape[1], ims.shape[2])
    /\ sess = [op |-> "none", nchunk |-> 1, nframes |-> 0, done |-> {}]
    /\ statOp = [name |-> "none"]

\* The caller allocates an accumulator and starts a chunk protocol of nchunk
\* bands on it (docstring of median, stats.py:62-66). The state it leaves
\* does not depend on what came before, so one protocol per run reaches
\* every state.
NewAccumulator(op, nchunk, nframes) ==
    /\ sess.op = "none"
    /\ img' = Zeros(ims.shape[1], ims.shape[2])
    /\ sess' = [op |-> op, nchunk |-> nchunk, nframes |-> nframes, done |-> {}]
    /\ statOp' = [name |-> "new"]
    /\ UNCHANGED <<ims, STATS_BUFFER, notStats>>

\* max(ims, chunk=(i, nchunk, img), nframes): the band is written into img
\* and img is returned.
CallMaxChunk(i) ==
    /\ sess.op = "max"
    /\ i \in 0 .. (sess.nchunk - 1)
    /\ img' = max_chunk(ims, sess.nframes, i, sess.nchunk, img)
    /\ sess' = [sess EXCEPT !.done = @ \cup {i}]
    /\ statOp' = StatRec("max", i, sess.nchunk, sess.nframes, img, img', TRUE)
    /\ UNCHANGED <<ims, STATS_BUFFER, notStats>>

\* median(ims, nframes, chunk=(i, nchunk, img)).
CallMedianChunk(i) ==
    /\ sess.op = "median"
    /\ i \in 0 .. (sess.nchunk - 1)
    /\ img' = median_chunk(ims, sess.nframes, i, sess.nchunk, img)
    /\ sess' = [sess EXCEPT !.done = @ \cup {i}]
    /\ statOp' = StatRec("median", i, sess.nchunk, sess.nframes, img, img', TRUE)
    /\ UNCHANGED <<ims, STATS_BUFFER, notStats>>

\* max(ims, nframes=n) with chunk=None: a new image is built and returned.
\* The call neither reads nor writes the caller's accumulator, so it is taken
\* on the series before a protocol starts.
CallMaxAuto(n) ==
    /\ sess.op = "none"
    /\ statOp' = StatRec("max", NoChunk, 0, n, img, max_auto(ims, n), FALSE)
    /\ UNCHANGED <<ims, STATS_BUFFER, img, sess, notStats>>

\* median(ims, nframes=n) with chunk=None: percentile(ims, 50, nframes=n).
CallMedianAuto(n) ==
    /\ sess.op = "none"
    /\ statOp' = StatRec("median", NoChunk, 0, n, img, percentile(ims, 50, n), FALSE)
    /\ UNCHANGED <<ims, STATS_BUFFER, img, sess, notStats>>

StatsNext ==
    \/ \E op \in {"max", "median"}, c \in ChunkCounts, n \in FrameCounts :
           NewAccumulator(op, c, n)
    \/ \E i \in 0 .. (MaxChunks - 1) : CallMaxChunk(i)
    \/ \E i \in 0 .. (MaxChunks - 1) : CallMedianChunk(i)
    \/ \E n \in FrameCounts : CallMaxAuto(n)
    \/ \E n \in FrameCounts : CallMedianAuto(n)

\* The statistics module while another component is exercised.
StatsIdleSeries ==
    /\ ims = [frames |-> <<MakeFrame(0, 1, 1)>>, shape |-> <<1, 1>>, itemsize |-> 1]
    /\ img = Zeros(1, 1)
    /\ sess = [op |-> "none", nchunk |-> 1, nframes |-> 0, done |-> {}]
    /\ statOp = [name |-> "none"]
StatsIdle == StatsIdleSeries /\ STATS_BUFFER = 1


\* ---- _chunk_ranges called for every chunk of a partition ----

MaxRangeRows == 10
MaxRangeChunks == 4

RangesInit ==
    /\ crRows \in 0 .. MaxRangeRows
    /\ crChunks \in 1 .. MaxRangeChunks
    /\ crOut = <<>>

\* The next call _chunk_ranges(nrows, nchunk, chunk), chunk = 0 .. nchunk-1
\* (the loop of stats.py:33-35 and of the docstring, stats.py:65).
NextChunkRange ==
    /\ Len(crOut) < crChunks
    /\ crOut' = Append(crOut, _chunk_ranges(crRows, crChunks, Len(crOut)))
    /\ UNCHANGED <<crRows, crChunks, notRanges>>

RangesNext == NextChunkRange

RangesIdle == crRows = 0 /\ crChunks = 1 /\ crOut = <<>>

\* ---- Claims on the statistics ----

\* The frame count N of the claims: min(n, len) when n > 0, else len.
ClaimN(n) == IF n > 0 THEN (IF n < len(ims) THEN n ELSE len(ims)) ELSE len(ims)

\* The maximum of pixel (r, c) over the first nf frames of the series.
MaxOfFirst(nf, r, c) ==
    CHOOSE v \in { ims.frames[f][r][c] : f \in 1..nf } :
        \A f \in 1..nf : ims.frames[f][r][c] <= v

IsChunkCall == statOp.name \in {"max", "median"} /\ statOp.chunk # NoChunk

\* The rows a call writes: its band, or every row without a chunk.
WrittenRows ==
    IF statOp.chunk = NoChunk THEN Rows(ims.shape[1])
    ELSE LET rr == _chunk_ranges(ims.shape[1], statOp.nchunk, statOp.chunk)
         IN rr[1] .. (rr[2] - 1)

\* C3: max(series, chunk, frame_count=n) returns, for every pixel it writes,
\* the maximum over the first N frames only, N = min(n, len) for n > 0 and
\* len otherwise, with and without an explicit chunk.
C3_MaxOverFirstN ==
    statOp.name = "max" =>
        \A r \in WrittenRows, c \in Cols(ims.shape[2]) :
            statOp.ret[r][c] = MaxOfFirst(ClaimN(statOp.nframes), r, c)

\* C4: the ranges _chunk_ranges(R, C, i), i = 0..C-1, partition the rows:
\* band 0 starts at 0, each band starts where the one before ends, band C-1
\* ends at R, band i has R \div C rows and one more exactly when i < R % C;
\* R = 10, C = 3 gives (0,4), (4,7), (7,10).
C4_ChunkRangesPartition ==
    /\ \A k \in 1 .. Len(crOut) :
          /\ crOut[k][2] - crOut[k][1] =
                 (crRows \div crChunks) + (IF k - 1 < crRows % crChunks THEN 1 ELSE 0)
          /\ k = 1 => crOut[k][1] = 0
          /\ k > 1 => crOut[k][1] = crOut[k - 1][2]
          /\ k = crChunks => crOut[k][2] = crRows
    /\ (crRows = 10 /\ crChunks = 3 /\ Len(crOut) = 3) =>
          crOut = << <<0, 4>>, <<4, 7>>, <<7, 10>> >>

\* C4 witness: every band of 10 rows in 3 chunks has been computed.
C4_Witness == crRows = 10 /\ crChunks = 3 /\ Len(crOut) = 3

\* One call of the protocol's function on band i.
ProtocolCall(op, nframes, i, nchunk, image) ==
    IF op = "max" THEN max_chunk(ims, nframes, i, nchunk, image)
    ELSE median_chunk(ims, nframes, i, nchunk, image)

\* The sequential run: bands i, i+1, ..., nchunk-1 in this order.
RECURSIVE SequentialRun(_, _, _, _, _)
SequentialRun(op, nframes, i, nchunk, image) ==
    IF i >= nchunk THEN image
    ELSE SequentialRun(op, nframes, i + 1, nchunk,
                       ProtocolCall(op, nframes, i, nchunk, image))

\* C5: once every band 0..C-1 has been computed on the accumulator, in any
\* order and with any repetitions, the accumulator equals the result of the
\* sequential run 0, 1, ..., C-1; and the rows a call writes are those the
\* same call writes into a fresh accumulator, whatever the other bands wrote.
C5_OrderIndependent ==
    /\ (sess.op \in {"max", "median"} /\ sess.done = 0 .. (sess.nchunk - 1)) =>
           img = SequentialRun(sess.op, sess.nframes, 0, sess.nchunk,
                               Zeros(ims.shape[1], ims.shape[2]))
    /\ IsChunkCall =>
           \A r \in WrittenRows :
               img[r] = ProtocolCall(statOp.name, statOp.nframes, statOp.chunk,
                                     statOp.nchunk,
                                     Zeros(ims.shape[1], ims.shape[2]))[r]

\* C5 witness: all three bands of a protocol are done, and the last call
\* redid band 0 on an accumulator that already held it.
C5_Witness ==
    /\ sess.nchunk = 3 /\ sess.done = {0, 1, 2} /\ ims.shape[1] = 3
    /\ IsChunkCall /\ statOp.chunk = 0
    /\ statOp.pre_img = img /\ img # Zeros(ims.shape[1], ims.shape[2])

\* C6: a call of max or median with an explicit chunk (i, C, img) changes
\* only the rows of img in band i's range given by _chunk_ranges, and the
\* image it returns is that accumulator.
C6_OnlyBandWritten ==
    IsChunkCall =>
        /\ \A r \in Rows(ims.shape[1]) \ WrittenRows : img[r] = statOp.pre_img[r]
        /\ statOp.ret_is_img /\ statOp.ret = img

\* C6 witness: band 1 of 2 was written while row 0, outside the band, held a
\* value of band 0, which is still there.
C6_Witness ==
    /\ IsChunkCall /\ statOp.nchunk = 2 /\ statOp.chunk = 1
    /\ ims.shape[1] >= 2
    /\ statOp.pre_img[0] # Zeros(1, ims.shape[2])[0]
    /\ img[0] = statOp.pre_img[0]
    /\ img[1] # statOp.pre_img[1]

\* The bands of the chunk loop of max that hold row r.
BandsOfRow(r, nchunks) ==
    { i \in 0 .. (nchunks - 1) :
        LET rr == _chunk_ranges(ims.shape[1], nchunks, i)
        IN rr[1] <= r /\ r < rr[2] }
IsAutoMaxAllFrames ==
    statOp.name = "max" /\ statOp.chunk = NoChunk /\ statOp.nframes = 0

\* C22: for every series with at least one frame, whatever its pixel values
\* (negative throughout included), and every positive STATS_BUFFER,
\* max(series) with no chunk and nframes = 0 equals _old_max(series) pixel
\* for pixel: every row of the zero-initialised image is written by exactly
\* one band of the chunk loop, also when there are more chunks than rows.
C22_AutoMaxIsOldMax ==
    IsAutoMaxAllFrames =>
        /\ statOp.ret = _old_max(ims, 0)
        /\ \A r \in Rows(ims.shape[1]) :
               Cardinality(BandsOfRow(r, max_nchunks(ims, 0))) = 1

\* C22 witness: max(series) was computed in more chunks than the series has
\* rows, for two frames of which the later lies above the earlier and a row
\* that is negative in both, and returned what _old_max returns.
C22_Witness ==
    /\ IsAutoMaxAllFrames
    /\ max_nchunks(ims, 0) > ims.shape[1]
    /\ len(ims) = 2 /\ ims.shape[1] = MaxRows
    /\ ims.frames[1][0][0] < ims.frames[2][0][0]
    /\ \A f \in 1..2 : ims.frames[f][1][0] < 0
    /\ statOp.ret = _old_max(ims, 0)
    /\ statOp.ret[1][0] < 0


(***************************************************************************)
(*                            MaterialConfig                               *)
(***************************************************************************)

\* A path is the sequence of its components; an absolute path starts with
\* the root "/".
RelDb == <<"mat.h5">>
AbsDb == <<"/", "db", "mat.h5">>
WdDb == <<"/", "wd", "mat.h5">>
WorkingDirs == { <<"/", "wd">>, <<"/", "db">> }
ConfiguredPaths == {RelDb, AbsDb}
Files == {AbsDb, WdDb}

\* os.path.isabs and os.path.join (material.py:22-23).
isabs(path) == path # <<>> /\ path[1] = "/"
join(a, b) == IF isabs(b) THEN b ELSE a \o b

\* material.py:11, DMIN_DFLT (angstrom), and the values of material:dmin.
DMIN_DFLT == "0.5"
Unset == "<unset>"
DminValues == {Unset, "1.0"}

\* self._materials does not exist (hasattr is false).
NoAttr == [kind |-> "noattr"]

MatNames == {"Ni", "Au"}

\* valWUnit(name, unitType, value, unit) of hexrd.valunits.
valWUnit(name, unitType, value, unit) ==
    [tagged |-> TRUE, name |-> name, unitType |-> unitType, value |-> value,
     unit |-> unit]
\* A bare number.
Bare(x) == [tagged |-> FALSE, value |-> x]

\* The beam energy a Material has until one is assigned.
DefaultBeamEnergy == valWUnit("beam energy", "energy", 80, "keV")

\* The materials stored in the definitions file at path f.
DbContent(f) == IF f = AbsDb THEN {"Ni", "Au"} ELSE {"Ni"}

\* material.load_materials_hdf5(f, dmin): a dict from each name in the file
\* to its Material, loaded with the minimum d-spacing dmin.
load_materials_hdf5(f, dmin) ==
    [kind |-> "dict", origin |-> "loaded",
     mats |-> [n \in DbContent(f) |->
                  [name |-> n, f |-> f, dmin |-> dmin,
                   beamEnergy |-> DefaultBeamEnergy]]]

\* A dict the caller built, with the materials of the set S.
CallerDict(S) ==
    [kind |-> "dict", origin |-> "caller",
     mats |-> [n \in S |->
                  [name |-> n, f |-> <<>>, dmin |-> Unset,
                   beamEnergy |-> DefaultBeamEnergy]]]

\* Values a caller may assign to materials: dicts of 0, 1 or 2 materials, a
\* list and None.
AssignValues ==
    { CallerDict(S) : S \in SUBSET MatNames } \cup {[kind |-> "list"], [kind |-> "NoneType"]}

\* Values a caller may assign to beam_energy: bare numbers and valWUnits.
EnergyValues ==
    { Bare(10), Bare(20), valWUnit("beam energy", "energy", 10, "keV"),
      valWUnit("energy", "energy", 12000, "eV") }

\* material.py:26-28: the message is the literal with its "%s" left in; no
\* argument is formatted into it.
definitions_message(configured, temp) ==
    [text |-> "\"material:definitions\": \"%s\" does not exist", args |-> <<>>]

\* material.py:18-28, definitions: the outcome of one access.
definitions ==
    LET configured == cfg.definitions
        temp == IF ~isabs(configured) THEN join(cfg.working_dir, configured)
                ELSE configured
    IN IF temp \in fs
       THEN [err |-> "ok", ret |-> temp, msg |-> [text |-> "", args |-> <<>>]]
       ELSE [err |-> "IOError", ret |-> <<>>,
             msg |-> definitions_message(configured, temp)]

\* material.py:50-53, dmin.
dmin == IF cfg.dmin = Unset THEN DMIN_DFLT ELSE cfg.dmin

\* material.py:38, not hasattr(self, '_materials').
needs_load_always(m) == TRUE
needs_load(m) == m = NoAttr

\* material.py:47, isinstance(mats, dict).
isinstance_dict_any(v) == TRUE
isinstance_dict(v) == v.kind = "dict"

\* material.py:35-43, the getter of materials: the outcome of one read, with
\* the value of self._materials after it and whether the loader was called.
materials_get ==
    IF needs_load(_materials)
    THEN LET d == definitions
         IN IF d.err # "ok"
            THEN [err |-> d.err, msg |-> d.msg, ret |-> NoAttr,
                  after |-> _materials, loaded |-> FALSE]
            ELSE LET m == load_materials_hdf5(d.ret, dmin)
                 IN [err |-> "ok", msg |-> d.msg, ret |-> m, after |-> m,
                     loaded |-> TRUE]
    ELSE [err |-> "ok", msg |-> [text |-> "", args |-> <<>>], ret |-> _materials,
          after |-> _materials, loaded |-> FALSE]

\* material.py:75-76, the loop over self.materials.values().
set_all_active_only(m, x) ==
    [m EXCEPT !.mats = [n \in DOMAIN m.mats |->
        IF n = cfg.active THEN [m.mats[n] EXCEPT !.beamEnergy = x] ELSE m.mats[n]]]
set_all(m, x) ==
    [m EXCEPT !.mats = [n \in DOMAIN m.mats |-> [m.mats[n] EXCEPT !.beamEnergy = x]]]

MatRec(name, arg, err, msg, ret, loaded) ==
    [name |-> name, arg |-> arg, err |-> err, msg |-> msg, ret |-> ret,
     loaded |-> loaded, pre |-> _materials, pre_loads |-> matHist.loads,
     first_read |-> ~matHist.read]

NoMsg == [text |-> "", args |-> <<>>]

\* The state after MaterialConfig(cfg): nothing is read or loaded.
MatInit ==
    /\ cfg \in [definitions : ConfiguredPaths, working_dir : WorkingDirs,
                dmin : DminValues, active : {"Ni"}]
    /\ fs \in SUBSET Files
    /\ _materials = NoAttr
    /\ matHist = [loads |-> 0, read |-> FALSE]
    /\ matOp = [name |-> "init", arg |-> NoAttr, err |-> "ok", msg |-> NoMsg,
                ret |-> NoAttr, loaded |-> FALSE, pre |-> NoAttr, pre_loads |-> 0,
                first_read |-> TRUE]

\* A read of definitions (material.py:18-28). The record of an operation is
\* of the state it returned in: a change of the configuration or of the file
\* system replaces it.
GetDefinitions ==
    /\ matOp' = MatRec("definitions", NoAttr, definitions.err, definitions.msg,
                       definitions.ret, FALSE)
    /\ UNCHANGED <<cfg, fs, _materials, matHist, notMat>>

\* A read of materials (material.py:35-43).
GetMaterials ==
    LET g == materials_get
    IN /\ _materials' = g.after
       /\ matHist' = [loads |-> matHist.loads + (IF g.loaded THEN 1 ELSE 0),
                      read |-> TRUE]
       /\ matOp' = MatRec("materials", NoAttr, g.err, g.msg, g.ret, g.loaded)
       /\ UNCHANGED <<cfg, fs, notMat>>

\* An assignment to materials (material.py:45-48).
SetMaterials(mats) ==
    IF ~isinstance_dict(mats)
    THEN /\ matOp' = MatRec("set_materials", mats, "AssertionError",
                            [text |-> "input must be a dict", args |-> <<>>],
                            NoAttr, FALSE)
         /\ UNCHANGED <<cfg, fs, _materials, matHist, notMat>>
    ELSE /\ _materials' = mats
         /\ matOp' = MatRec("set_materials", mats, "ok", NoMsg, NoAttr, FALSE)
         /\ UNCHANGED <<cfg, fs, matHist, notMat>>

\* An assignment to beam_energy (material.py:71-76): x is wrapped unless it
\* is a valWUnit, self.materials is read (and loaded if need be), and every
\* material gets x.
SetBeamEnergy(x0) ==
    LET x == IF ~x0.tagged THEN valWUnit("beam energy", "energy", x0.value, "keV")
             ELSE x0
        g == materials_get
    IN /\ _materials' = IF g.err = "ok" THEN set_all(g.after, x) ELSE g.after
       /\ matHist' = [loads |-> matHist.loads + (IF g.loaded THEN 1 ELSE 0),
                      read |-> TRUE]
       /\ matOp' = MatRec("set_beam_energy", x0, g.err, g.msg, NoAttr, g.loaded)
       /\ UNCHANGED <<cfg, fs, notMat>>

\* The configuration and the file system change under the MaterialConfig.
EnvRec(name, arg) == MatRec(name, arg, "ok", NoMsg, NoAttr, FALSE)

CfgSetDmin(d) ==
    /\ d # cfg.dmin
    /\ cfg' = [cfg EXCEPT !.dmin = d]
    /\ matOp' = EnvRec("cfg_dmin", NoAttr)
    /\ UNCHANGED <<fs, _materials, matHist, notMat>>

CfgSetDefinitions(path) ==
    /\ path # cfg.definitions
    /\ cfg' = [cfg EXCEPT !.definitions = path]
    /\ matOp' = EnvRec("cfg_definitions", NoAttr)
    /\ UNCHANGED <<fs, _materials, matHist, notMat>>

FsCreate(path) ==
    /\ path \notin fs
    /\ fs' = fs \cup {path}
    /\ matOp' = EnvRec("fs_create", NoAttr)
    /\ UNCHANGED <<cfg, _materials, matHist, notMat>>

FsRemove(path) ==
    /\ path \in fs
    /\ fs' = fs \ {path}
    /\ matOp' = EnvRec("fs_remove", NoAttr)
    /\ UNCHANGED <<cfg, _materials, matHist, notMat>>

MatNext ==
    \/ GetDefinitions
    \/ GetMaterials
    \/ \E mats \in AssignValues : SetMaterials(mats)
    \/ \E x \in EnergyValues : SetBeamEnergy(x)
    \/ \E d \in DminValues : CfgSetDmin(d)
    \/ \E path \in ConfiguredPaths : CfgSetDefinitions(path)
    \/ \E path \in Files : FsCreate(path)
    \/ \E path \in Files : FsRemove(path)

\* The MaterialConfig while another component is exercised.
MatIdle ==
    /\ cfg = [definitions |-> RelDb, working_dir |-> <<"/", "wd">>, dmin |-> Unset,
              active |-> "Ni"]
    /\ fs = {}
    /\ _materials = NoAttr
    /\ matHist = [loads |-> 0, read |-> FALSE]
    /\ matOp = [name |-> "idle"]


\* ---- Claims on the MaterialConfig ----

IsMaterialsRead == matOp.name = "materials"

\* C7 (as stated): construction never touches the definitions file; the
\* loader is invoked at most once, only on the first read of materials and
\* only if no mapping was assigned before it; every later read returns the
\* cached or last assigned mapping without reloading.
C7_AsStated ==
    /\ matOp.name = "init" => (matHist.loads = 0 /\ _materials = NoAttr)
    /\ matHist.loads <= 1
    /\ matOp.loaded => (matOp.first_read /\ matOp.pre = NoAttr)
    /\ (IsMaterialsRead /\ matOp.pre # NoAttr) =>
           (~matOp.loaded /\ matOp.ret = matOp.pre /\ _materials = matOp.pre)

\* C7 (amended): construction never touches the definitions file; the
\* loader is invoked only by a read made while no mapping is cached (none
\* loaded, none assigned), which need not be the first read, since a read
\* that fails on a missing definitions file caches nothing; the loader
\* completes at most once; once a mapping is cached, every read returns that
\* mapping (or the last assigned one) without reloading, whatever dmin and
\* the definitions path have become.
C7_LazyLoadedOnce ==
    /\ matOp.name = "init" => (matHist.loads = 0 /\ _materials = NoAttr)
    /\ matHist.loads <= 1
    /\ matOp.loaded =>
           (matOp.pre = NoAttr /\ matOp.name \in {"materials", "set_beam_energy"})
    /\ (IsMaterialsRead /\ matOp.pre # NoAttr) =>
           (~matOp.loaded /\ matOp.err = "ok" /\ matOp.ret = matOp.pre
            /\ _materials = matOp.pre /\ matHist.loads = matOp.pre_loads)

\* C7 witness: a read returned the mapping loaded earlier with another dmin,
\* after the definitions file it was loaded from had been removed.
C7_Witness ==
    /\ IsMaterialsRead /\ matOp.pre # NoAttr /\ matOp.pre.origin = "loaded"
    /\ matOp.ret = matOp.pre /\ matHist.loads = 1
    /\ \E n \in DOMAIN matOp.ret.mats :
           /\ matOp.ret.mats[n].dmin # dmin
           /\ matOp.ret.mats[n].f \notin fs

\* The value the claim says is stored for an assigned beam energy x.
KeVTagged(x) ==
    IF x.tagged THEN x
    ELSE [tagged |-> TRUE, name |-> "beam energy", unitType |-> "energy",
          value |-> x.value, unit |-> "keV"]

IsBeamEnergySet == matOp.name = "set_beam_energy" /\ matOp.err = "ok"

\* C8: writing beam_energy sets the same value, a bare number wrapped as a
\* keV value and a tagged value as it is, as the beam energy of every one of
\* the N >= 0 materials of the mapping; none is skipped.
C8_BeamEnergyBroadcast ==
    IsBeamEnergySet =>
        /\ _materials.kind = "dict"
        /\ matOp.pre # NoAttr => DOMAIN _materials.mats = DOMAIN matOp.pre.mats
        /\ \A n \in DOMAIN _materials.mats :
               _materials.mats[n].beamEnergy = KeVTagged(matOp.arg)

\* C8 witness: a bare number was written to a mapping of two materials that
\* held another beam energy.
C8_Witness ==
    /\ IsBeamEnergySet /\ ~matOp.arg.tagged /\ matOp.pre # NoAttr
    /\ DOMAIN _materials.mats = {"Ni", "Au"}
    /\ \A n \in DOMAIN _materials.mats :
           /\ matOp.pre.mats[n].beamEnergy # _materials.mats[n].beamEnergy
           /\ _materials.mats[n].beamEnergy.unit = "keV"

\* The path the claim says definitions resolves to.
ResolvedPath ==
    IF cfg.definitions[1] = "/" THEN cfg.definitions
    ELSE cfg.working_dir \o cfg.definitions

\* C9: definitions joins a relative configured path against the working
\* directory and returns an absolute one unchanged; when the resolved path
\* does not exist it fails with an error that names the configured path;
\* existence is checked on every access.
C9_DefinitionsResolved ==
    matOp.name = "definitions" =>
        /\ ResolvedPath \in fs => (matOp.err = "ok" /\ matOp.ret = ResolvedPath)
        /\ ResolvedPath \notin fs =>
               /\ matOp.err = "IOError"
               /\ \E k \in DOMAIN matOp.msg.args :
                      matOp.msg.args[k] \in {cfg.definitions, ResolvedPath}

\* C10: assigning a value that is no dict to materials fails and leaves the
\* cached mapping, or its absence, as it was; assigning a dict makes it the
\* cache, and the loader is not invoked.
C10_SetterRequiresDict ==
    matOp.name = "set_materials" =>
        /\ ~matOp.loaded /\ matHist.loads = matOp.pre_loads
        /\ matOp.arg.kind # "dict" =>
               (matOp.err = "AssertionError" /\ _materials = matOp.pre)
        /\ matOp.arg.kind = "dict" =>
               (matOp.err = "ok" /\ _materials = matOp.arg)

\* C10 witness: a list was assigned, and refused, while a loaded mapping was
\* cached.
C10_Witness ==
    /\ matOp.name = "set_materials" /\ matOp.arg.kind = "list"
    /\ matOp.err = "AssertionError"
    /\ matOp.pre # NoAttr /\ matOp.pre.origin = "loaded" /\ _materials = matOp.pre


(***************************************************************************)
(*        StructurelessCalibrator: evaluation of the residual              *)
(*                                                                         *)
(* The calibrator of SpecCal seen at the level of the measured points: the *)
(* dataset is a mapping source -> list of rings -> detector -> points, the *)
(* instrument has an active X-ray source and a geometry, and angles are    *)
(* integers.  Radian values are held in units of pi/90, degree values in   *)
(* degrees.                                                                *)
(***************************************************************************)

\* self.instr.detectors, in iteration order, and the instrument's sources.
detectors == <<"d1", "d2">>
DetSet == {"d1", "d2"}
Sources == <<"s1", "s2">>
IndexOf(seq, x) == CHOOSE i \in DOMAIN seq : seq[i] = x

\* An array of values, and None in place of an array.
Arr(v) == [isNone |-> FALSE, v |-> v]
NoneArr == [isNone |-> TRUE]
size(a) == Len(a.v)

\* The rings of the datasets: a ring maps some detectors to the pixels
\* measured on them; a detector may be missing from the ring or hold an
\* empty array.
RingDicts ==
    { <<>>,
      "d1" :> <<>>,
      "d2" :> <<1>>,
      ("d1" :> <<1, 2>>) @@ ("d2" :> <<3>>) }
RingCounts == {1, 2}
RingLists == UNION { [1..n -> RingDicts] : n \in RingCounts }

\* The datasets: no source at all, one source, or two sources that saw the
\* same rings.
SourceSets == { {}, {"s1"}, {"s1", "s2"} }
Datasets == { [xray_source \in S |-> rings] : S \in SourceSets, rings \in RingLists }

\* self.data.items() / "for xray_source in self.data": the keys in order.
data_keys == SelectSeq(Sources, LAMBDA s : s \in DOMAIN data)

\* Geometry values and trial parameter collections: the geometry degrees of
\* freedom and one two-theta value (degrees) per (source, ring index).
GeomValues == {0, 1}
RingIndex == UNION { 1..n : n \in RingCounts }
tth_parameters(seed) ==
    [k \in SeqRange(Sources) \X RingIndex |->
        40 * seed + 7 * IndexOf(Sources, k[1]) + k[2]]
TrialParams ==
    { [geom |-> g, tth |-> tth_parameters(1 - g)] : g \in GeomValues }

\* Detector.cart_to_angles(meas_xy, tvec_s, apply_distortion=True): the
\* two-theta (radian units) of each measured pixel, which depends on the
\* panel, on the geometry of the instrument and on its active source.
cart_to_angles(ins, det, meas_xy) ==
    Arr([i \in DOMAIN meas_xy |->
            meas_xy[i] + 10 * IndexOf(detectors, det)
                       + 20 * IndexOf(Sources, ins.active) + 5 * ins.geom])

\* DistortionABC.apply(meas_xy, return_nominal=False)[:, 0] of the
\* distortion object of a detector: the two-theta correction (radian units).
distortion_apply(det, meas_xy) ==
    Arr([i \in DOMAIN meas_xy |-> meas_xy[i] + IndexOf(detectors, det)])

\* numpy.degrees on values held in units of pi/90.
np_degrees(x) == 2 * x

\* hexrd.instrument.switch_xray_source, a context manager: entering makes
\* the source the active one, leaving restores the source that was active
\* at entry, whether the block returned or raised.
switch_xray_source_enter(ins, xray_source) == [ins EXCEPT !.active = xray_source]
switch_xray_source_exit(ins, prev, raised) == [ins EXCEPT !.active = prev]

\* structureless.py:199 and 221, "with switch_xray_source(self.instr,
\* xray_source):" -- the instrument inside the block and after the block was
\* left.
with_source_assign(ins, xray_source, raised) ==
    [inside |-> [ins EXCEPT !.active = xray_source],
     after |-> [ins EXCEPT !.active = xray_source]]
with_source(ins, xray_source, raised) ==
    [inside |-> switch_xray_source_enter(ins, xray_source),
     after |-> switch_xray_source_exit(
                   switch_xray_source_enter(ins, xray_source), ins.active, raised)]

\* The number of (ring, detector) items of the first k sources: the calls of
\* cart_to_angles (of apply) made while these sources are processed.
n_items(k) ==
    Cardinality({ t \in (1..k) \X RingIndex \X DetSet :
                      /\ t[2] \in DOMAIN data[data_keys[t[1]]]
                      /\ t[3] \in DOMAIN data[data_keys[t[1]]][t[2]] })

\* structureless.py:190-215, meas_angles, from the k-th source on.  The
\* failAt-th call of cart_to_angles raises (0: none does); the exception
\* leaves the with block and the property.
RECURSIVE meas_angles_from(_, _, _, _)
meas_angles_from(ins, k, failAt, angles_dict) ==
    IF k > Len(data_keys)
    THEN [instr |-> ins, err |-> "ok", ret |-> angles_dict]
    ELSE LET xray_source == data_keys[k]
             rings == data[xray_source]
             raised == failAt \in (n_items(k - 1) + 1)..n_items(k)
             blk == with_source(ins, xray_source, raised)
             ang_list ==
                 [ii \in DOMAIN rings |->
                     [det_name \in DetSet |->
                         IF det_name \in DOMAIN rings[ii]
                         THEN cart_to_angles(blk.inside, det_name,
                                             rings[ii][det_name])
                         ELSE NoneArr]]
         IN IF raised
            THEN [instr |-> blk.after, err |-> "RuntimeError", ret |-> <<>>]
            ELSE meas_angles_from(blk.after, k + 1, failAt,
                                  angles_dict @@ (xray_source :> ang_list))
meas_angles(ins, failAt) == meas_angles_from(ins, 1, failAt, <<>>)

\* structureless.py:217-235, tth_correction, from the k-th source on.  apply
\* is called only when a distortion is configured; its failAt-th call raises.
RECURSIVE tth_correction_from(_, _, _, _)
tth_correction_from(ins, k, failAt, ret) ==
    IF k > Len(data_keys)
    THEN [instr |-> ins, err |-> "ok", ret |-> ret]
    ELSE LET xray_source == data_keys[k]
             rings == data[xray_source]
             raised == /\ _tth_distortion # NoneVal
                       /\ failAt \in (n_items(k - 1) + 1)..n_items(k)
             blk == with_source(ins, xray_source, raised)
             corr_list ==
                 [ii \in DOMAIN rings |->
                     [det_name \in DetSet |->
                         IF /\ _tth_distortion # NoneVal
                            /\ det_name \in DOMAIN rings[ii]
                         THEN distortion_apply(det_name, rings[ii][det_name])
                         ELSE NoneArr]]
         IN IF raised
            THEN [instr |-> blk.after, err |-> "RuntimeError", ret |-> <<>>]
            ELSE tth_correction_from(blk.after, k + 1, failAt,
                                     ret @@ (xray_source :> corr_list))
tth_correction(ins, failAt) == tth_correction_from(ins, 1, failAt, <<>>)

\* lmfit_param_handling.update_instrument_from_params: the geometry values
\* of the parameters are written into the instrument.
update_instrument_from_params(ins, p) == [ins EXCEPT !.geom = p.geom]

\* structureless.py:85-90, the block of one (source, ring, detector): the
\* measured two-theta in degrees minus the two-theta parameter of the ring,
\* minus the correction in degrees when there is one.
delta_tth_no_corr(p, xray_source, ii, ang, corr) ==
    [i \in DOMAIN ang.v |-> np_degrees(ang.v[i]) - p.tth[<<xray_source, ii>>]]
delta_tth(p, xray_source, ii, ang, corr) ==
    [i \in DOMAIN ang.v |->
        np_degrees(ang.v[i]) - p.tth[<<xray_source, ii>>]
            - (IF corr.isNone THEN 0 ELSE np_degrees(corr.v[i]))]

\* structureless.py:80-90, the loop over self.instr.detectors (from the j-th
\* on) for one ring: a detector without angles or with an empty array is
\* skipped.
RECURSIVE detector_loop(_, _, _, _, _, _)
detector_loop(p, xray_source, ii, rng, corr_rng, j) ==
    IF j > Len(detectors) THEN <<>>
    ELSE LET det_name == detectors[j]
             rest == detector_loop(p, xray_source, ii, rng, corr_rng, j + 1)
         IN IF rng[det_name].isNone \/ size(rng[det_name]) = 0
            THEN rest
            ELSE <<delta_tth(p, xray_source, ii, rng[det_name],
                             corr_rng[det_name])>> \o rest

\* structureless.py:76-79, the loop over the rings of one source.
RECURSIVE ring_loop(_, _, _, _, _)
ring_loop(p, xray_source, angs, corrs, ii) ==
    IF ii > Len(angs) THEN <<>>
    ELSE detector_loop(p, xray_source, ii, angs[ii], corrs[ii], 1)
             \o ring_loop(p, xray_source, angs, corrs, ii + 1)

\* structureless.py:74-75, the loop over the sources of self.data.
RECURSIVE source_loop(_, _, _, _)
source_loop(p, angles, corrections, k) ==
    IF k > Len(data_keys) THEN <<>>
    ELSE ring_loop(p, data_keys[k], angles[data_keys[k]],
                   corrections[data_keys[k]], 1)
             \o source_loop(p, angles, corrections, k + 1)

\* numpy.hstack of a non-empty list of one-dimensional arrays.
RECURSIVE np_hstack(_)
np_hstack(list) ==
    IF Len(list) = 0 THEN <<>> ELSE Head(list) \o np_hstack(Tail(list))

\* structureless.py:62-92, calc_residual.  The parameters are pushed into the
\* instrument, then the angles and the corrections are computed; an
\* exception of either property leaves calc_residual.  numpy.hstack raises
\* ValueError for an empty list.
calc_residual(p, failMeas, failCorr) ==
    LET ins == update_instrument_from_params(instrument, p)
        ma == meas_angles(ins, failMeas)
        tc == tth_correction(ma.instr, failCorr)
        residual_list == source_loop(p, ma.ret, tc.ret, 1)
    IN IF ma.err # "ok" THEN [instr |-> ma.instr, err |-> ma.err, ret |-> <<>>]
       ELSE IF tc.err # "ok" THEN [instr |-> tc.instr, err |-> tc.err, ret |-> <<>>]
       ELSE IF Len(residual_list) = 0
       THEN [instr |-> tc.instr, err |-> "ValueError", ret |-> <<>>]
       ELSE [instr |-> tc.instr, err |-> "ok", ret |-> np_hstack(residual_list)]

\* Values of tth_distortion: None, or one distortion object per detector.
Distortions == {NoneVal, "sd"}

\* No parameters (a property read).
NoTrial == [geom |-> -1]

\* The record kept of a call: the instrument it found, its arguments, the
\* calls made to fail, and its outcome.
ResRec(name, p, failMeas, failCorr, r) ==
    [name |-> name, trial |-> p, failMeas |-> failMeas, failCorr |-> failCorr,
     pre |-> instrument, err |-> r.err, ret |-> r.ret]

\* structureless.py:35-48: a calibrator on a dataset and an instrument.
ResidInit ==
    \E d \in Datasets, a \in SeqRange(Sources), sd \in Distortions :
        /\ data = d
        /\ instrument = [active |-> a, geom |-> 0]
        /\ _tth_distortion = sd
        /\ resOp = [name |-> "init"]

\* A read of the property meas_angles.
GetMeasAngles ==
    \E failAt \in 0..n_items(Len(data_keys)) :
        LET r == meas_angles(instrument, failAt)
        IN /\ instrument' = r.instr
           /\ resOp' = ResRec("meas_angles", NoTrial, failAt, 0, r)
           /\ UNCHANGED <<data, _tth_distortion, notResid>>

\* A read of the property tth_correction.
GetTthCorrection ==
    \E failAt \in 0..(IF _tth_distortion = NoneVal THEN 0
                      ELSE n_items(Len(data_keys))) :
        LET r == tth_correction(instrument, failAt)
        IN /\ instrument' = r.instr
           /\ resOp' = ResRec("tth_correction", NoTrial, 0, failAt, r)
           /\ UNCHANGED <<data, _tth_distortion, notResid>>

\* A call of calc_residual by the minimizer, with trial parameters.
CalcResidual ==
    \E p \in TrialParams,
       failMeas \in 0..n_items(Len(data_keys)),
       failCorr \in 0..(IF _tth_distortion = NoneVal THEN 0
                        ELSE n_items(Len(data_keys))) :
        /\ failMeas = 0 \/ failCorr = 0
        /\ LET r == calc_residual(p, failMeas, failCorr)
           IN /\ instrument' = r.instr
              /\ resOp' = ResRec("calc_residual", p, failMeas, failCorr, r)
              /\ UNCHANGED <<data, _tth_distortion, notResid>>

\* structureless.py:138-141, tth_distortion.setter.
tth_distortion_setter(v) ==
    /\ _tth_distortion' = v
    /\ resOp' = [name |-> "set_tth_distortion"]
    /\ UNCHANGED <<data, instrument, notResid>>
SetTthDistortion == \E v \in Distortions : tth_distortion_setter(v)

ResidNext ==
    \/ GetMeasAngles
    \/ GetTthCorrection
    \/ CalcResidual
    \/ SetTthDistortion

\* The residual evaluation while another component is exercised.
ResidIdle ==
    /\ data = <<>>
    /\ instrument = [active |-> "s1", geom |-> 0]
    /\ _tth_distortion = NoneVal
    /\ resOp = [name |-> "idle"]

\* ---- Claims on run_calibration ----

IsCompletedFit == calOp.name = "run_calibration" /\ calOp.err = "ok"

\* C13: when run_calibration completes (converged or stopped at the
\* evaluation budget, with either method), the result of the fit is stored
\* in res and is what the call returns, and params is the parameter
\* collection of that result; a read of residual that follows is evaluated
\* at these fitted parameters.
C13_ParamsAreFitResult ==
    /\ IsCompletedFit =>
           /\ res = calOp.ret
           /\ res.kind = "result"
           /\ params = res.params
           /\ params.fitted
    /\ (calOp.name = "residual" /\ calOp.after = <<"run_calibration", "ok">>) =>
           /\ calOp.ret.at = res.params
           /\ calOp.ret.at.fitted

\* residual was read right after a fit with the scalar minimizer that
\* stopped at its evaluation budget.
C13_Witness ==
    /\ calOp.name = "residual"
    /\ calOp.after = <<"run_calibration", "ok">>
    /\ res.kind = "result"
    /\ res.method = "nelder"
    /\ res.stopped = "max_nfev"
    /\ calOp.ret.at = params

\* C14 (as stated): run_calibration merges the caller's options key by key.
\* With least_squares each caller key replaces the default of that key and
\* the other defaults are kept; with any other method the maximum evaluation
\* count is 50000 unless the caller gives one, and every caller option,
\* a maximum evaluation count included, is merged in without error.
C14_OptionsMerged ==
    calOp.name = "run_calibration" =>
        LET defaults == IF calOp.arg = "least_squares"
                        THEN least_squares_defaults
                        ELSE [max_nfev |-> "50000"]
        IN /\ calOp.err = "ok"
           /\ DOMAIN res.kws = (DOMAIN defaults) \cup (DOMAIN calOp.odict)
           /\ \A k \in DOMAIN res.kws :
                  res.kws[k] = IF k \in DOMAIN calOp.odict
                               THEN calOp.odict[k] ELSE defaults[k]

\* ---- Claims on the residual evaluation ----

\* The measured points of the dataset: (source, ring index, detector, row).
MeasuredPoints ==
    { t \in (DOMAIN data) \X RingIndex \X DetSet \X (1..3) :
          /\ t[2] \in DOMAIN data[t[1]]
          /\ t[3] \in DOMAIN data[t[1]][t[2]]
          /\ t[4] \in DOMAIN data[t[1]][t[2]][t[3]] }

\* A call of calc_residual in which no call of the detector or distortion
\* code was made to fail.
IsCalcResidual == resOp.name = "calc_residual"
NoInjectedFailure == resOp.failMeas = 0 /\ resOp.failCorr = 0

\* C11: a (source, ring, detector) combination whose measured data is absent
\* or empty contributes nothing to the residual and never causes an error,
\* for every dataset, also one in which some or all combinations have no
\* data: calc_residual returns, with one entry per measured point.
C11_EmptyCombinationsSkipped ==
    (IsCalcResidual /\ NoInjectedFailure) =>
        /\ resOp.err = "ok"
        /\ Len(resOp.ret) = Cardinality(MeasuredPoints)

\* A call that switches the instrument through the sources of the dataset.
IsSourceSwitchingCall ==
    resOp.name \in {"meas_angles", "tth_correction", "calc_residual"}

\* C12: after meas_angles or tth_correction (and so calc_residual) has
\* returned or has failed at any point, the active X-ray source of the
\* instrument is the one that was active before the call.
C12_ActiveSourceRestored ==
    IsSourceSwitchingCall => instrument.active = resOp.pre.active

\* meas_angles failed in a call of cart_to_angles made for the second source
\* while "s1" was the active source before the read.
C12_Witness ==
    /\ resOp.name = "meas_angles"
    /\ resOp.err = "RuntimeError"
    /\ resOp.failMeas > n_items(1)
    /\ resOp.pre.active = "s1"
    /\ instrument.active = "s1"

\* The order of the loops of calc_residual on measured points: source
\* (outer), ring index, detector (inner), then the row of the array.
Rank(t) == <<IndexOf(Sources, t[1]), t[2], IndexOf(detectors, t[3]), t[4]>>
Before(t, u) ==
    \E k \in 1..4 :
        /\ Rank(t)[k] < Rank(u)[k]
        /\ \A j \in 1..(k - 1) : Rank(t)[j] = Rank(u)[j]
Position(t) == 1 + Cardinality({ u \in MeasuredPoints : Before(u, t) })

\* The entry of the residual for a measured point: the measured two-theta in
\* degrees under the trial geometry and the point's own source, minus the
\* two-theta parameter of its (source, ring), minus the correction in degrees
\* when a distortion is configured.
ExpectedEntry(t, p) ==
    LET meas_xy == data[t[1]][t[2]][t[3]]
        ins == [active |-> t[1], geom |-> p.geom]
    IN np_degrees(cart_to_angles(ins, t[3], meas_xy).v[t[4]])
           - p.tth[<<t[1], t[2]>>]
           - (IF _tth_distortion = NoneVal THEN 0
              ELSE np_degrees(distortion_apply(t[3], meas_xy).v[t[4]]))

\* C20: the vector returned by calc_residual is the concatenation, in the
\* order source (outer), ring index, detector (inner), of one block per
\* combination with non-empty data; each entry is the measured two-theta in
\* degrees minus the two-theta parameter of its (source, ring), minus the
\* correction in degrees when a distortion is configured; its length is the
\* number of measured points; and the trial parameters are in the instrument
\* before any angle is computed.
C20_ResidualVector ==
    IsCalcResidual =>
        /\ instrument.geom = resOp.trial.geom
        /\ resOp.err = "ok" =>
               /\ Len(resOp.ret) = Cardinality(MeasuredPoints)
               /\ \A t \in MeasuredPoints :
                      resOp.ret[Position(t)] = ExpectedEntry(t, resOp.trial)

\* calc_residual returned for two sources, a ring with data on both
\* detectors and a ring with an empty array only, with a distortion
\* configured and trial geometry other than the instrument's.
C20_Witness ==
    /\ IsCalcResidual
    /\ resOp.err = "ok"
    /\ DOMAIN data = {"s1", "s2"}
    /\ _tth_distortion # NoneVal
    /\ resOp.pre.geom # resOp.trial.geom
    /\ \E ii \in DOMAIN data["s1"] : DOMAIN data["s1"][ii] = DetSet
    /\ \E ii \in DOMAIN data["s1"] : data["s1"][ii] = ("d1" :> <<>>)
    /\ Len(resOp.ret) = 6

(***************************************************************************)
(*          CylindricalDetector: gradient of the eta field                 *)
(*                                                                         *)
(* Angles are integers in units of pi/180.  The eta field of a panel is a  *)
(* linear field wrapped into (-pi, pi]; its values are odd, so that the    *)
(* central differences of numpy.gradient are integers.  Magnitudes are     *)
(* held by their squares.                                                  *)
(***************************************************************************)

\* np.pi in units of pi/180.
np_pi == 180

MaxEtaRows == 3
MaxEtaCols == 4

\* The eta of pixel (0, 0) and the true change of eta per pixel along the
\* rows and along the columns.
EtaStarts == {175, 177, 179, -179, -177, -175}
EtaSteps == {-2, 0, 2}

\* An angle brought into (-pi, pi].
wrap_eta(x) == ((x + np_pi - 1 + 4 * np_pi) % (2 * np_pi)) - (np_pi - 1)

\* cylindrical_detector.py:200-205, the eta field returned by _pixel_angles
\* (xrdutil.utils._dvec_to_angs, reshaped to rows x cols).
pixel_eta(g) ==
    [r \in 0..(g.rows - 1) |->
        [c \in 0..(g.cols - 1) |-> wrap_eta(g.eta0 + g.row_step * r + g.col_step * c)]]

Abs(x) == IF x < 0 THEN -x ELSE x
Min3(a, b, c) == Min2(a, Min2(b, c))

\* numpy.gradient(f, axis=...) with unit spacing: one-sided differences at the
\* two ends of the axis, central differences in between.
np_gradient(f, axis) ==
    LET nr == Cardinality(DOMAIN f)
        nc == Cardinality(DOMAIN f[0])
    IN [r \in DOMAIN f |-> [c \in DOMAIN f[0] |->
           IF axis = 0
           THEN IF r = 0 THEN f[1][c] - f[0][c]
                ELSE IF r = nr - 1 THEN f[r][c] - f[r - 1][c]
                ELSE (f[r + 1][c] - f[r - 1][c]) \div 2
           ELSE IF c = 0 THEN f[r][1] - f[r][0]
                ELSE IF c = nc - 1 THEN f[r][c] - f[r][c - 1]
                ELSE (f[r][c + 1] - f[r][c - 1]) \div 2]]

\* cylindrical_detector.py:229-233, _fix_branch_cut_in_gradients.
_fix_branch_cut_in_gradients(pgarray) ==
    [r \in DOMAIN pgarray |-> [c \in DOMAIN pgarray[r] |->
        Min3(Abs(pgarray[r][c] - np_pi), Abs(pgarray[r][c]),
             Abs(pgarray[r][c] + np_pi))]]

\* cylindrical_detector.py:215-227, _pixel_eta_gradient: per pixel the square
\* of the norm of the two corrected gradient components.
_pixel_eta_gradient(peta) ==
    LET peta_grad_row == _fix_branch_cut_in_gradients(np_gradient(peta, 0))
        peta_grad_col == _fix_branch_cut_in_gradients(np_gradient(peta, 1))
    IN [r \in DOMAIN peta |-> [c \in DOMAIN peta[r] |->
           peta_grad_col[r][c] * peta_grad_col[r][c]
               + peta_grad_row[r][c] * peta_grad_row[r][c]]]

\* A panel whose pixels have the eta field of the geometry g.
EtaInit ==
    \E e0 \in EtaStarts, sr \in EtaSteps, sc \in EtaSteps,
       nr \in 2..MaxEtaRows, nc \in 2..MaxEtaCols :
        /\ etaGeom = [eta0 |-> e0, row_step |-> sr, col_step |-> sc,
                      rows |-> nr, cols |-> nc]
        /\ etaOp = [name |-> "none"]

\* cylindrical_detector.py:215-227, a call of _pixel_eta_gradient.
PixelEtaGradient ==
    /\ etaOp' = [name |-> "pixel_eta_gradient",
                 peta |-> pixel_eta(etaGeom),
                 ret |-> _pixel_eta_gradient(pixel_eta(etaGeom))]
    /\ UNCHANGED <<etaGeom, notEta>>

EtaNext == PixelEtaGradient

\* The panel while another component is exercised.
EtaIdle ==
    /\ etaGeom = [eta0 |-> 175, row_step |-> 0, col_step |-> 0,
                  rows |-> 2, cols |-> 2]
    /\ etaOp = [name |-> "idle"]

\* ---- Claims on the eta gradient ----

\* The pixels next to the wrap of eta: an adjacent pixel along a row or a
\* column has eta on the other side of the cut (179 against -179).
AcrossCut(a, b) == Abs(a - b) = 2 * np_pi - 2
WrapPixels(peta) ==
    { p \in (DOMAIN peta) \X (DOMAIN peta[0]) :
        \E q \in (DOMAIN peta) \X (DOMAIN peta[0]) :
            /\ Abs(p[1] - q[1]) + Abs(p[2] - q[2]) = 1
            /\ AcrossCut(peta[p[1]][p[2]], peta[q[1]][q[2]]) }

\* C15: _pixel_eta_gradient removes the wrap of eta: where two adjacent
\* pixels have eta -179 and +179 degrees (a raw difference of 358 degrees),
\* the corrected gradient has the magnitude of the true change of eta per
\* pixel (2 degrees), not 358 degrees and no other spurious value.
C15_WrapRemoved ==
    etaOp.name = "pixel_eta_gradient" =>
        \A p \in WrapPixels(etaOp.peta) :
            etaOp.ret[p[1]][p[2]] =
                etaGeom.row_step * etaGeom.row_step
                    + etaGeom.col_step * etaGeom.col_step

(***************************************************************************)
(*        CylindricalDetector: sizes of the memoization caches             *)
(***************************************************************************)

\* cylindrical_detector.py:161-165, the memoized functions of the module.
funcs == {"_pixel_angles", "_pixel_tth_gradient", "_pixel_eta_gradient"}

\* The elements a caller may put into all_panels: an instance of
\* CylindricalDetector, an instance of another detector class, or the class
\* object CylindricalDetector itself.
PanelKinds == {"CylindricalDetector()", "PlanarDetector()", "CylindricalDetector"}
MaxPanels == 3
PanelLists == UNION { [1..n -> PanelKinds] : n \in 0..MaxPanels }

\* The largest cache size followed.
MaxCache == 8

\* cylindrical_detector.py:160, "x is CylindricalDetector": identity with the
\* class object, which no instance has.
is_CylindricalDetector(x) == x = "CylindricalDetector"

\* Detector.increase_memoization_sizes(funcs, num): the capacity of each of
\* the caches grows by num.
increase_memoization_sizes(sizes, fs_, num) ==
    [f \in DOMAIN sizes |-> IF f \in fs_ THEN sizes[f] + num ELSE sizes[f]]

\* cylindrical_detector.py:157-167, update_memoization_sizes.  The call of
\* Detector.update_memoization_sizes (line 158) sizes the caches of the base
\* class, not these three.
update_memoization_sizes(all_panels) ==
    LET num_matches ==
            Cardinality({ i \in DOMAIN all_panels : is_CylindricalDetector(all_panels[i]) })
    IN /\ cache_maxsize' = increase_memoization_sizes(cache_maxsize, funcs, num_matches)
       /\ memoOp' = [name |-> "update_memoization_sizes",
                     all_panels |-> all_panels, pre |-> cache_maxsize]
       /\ UNCHANGED notMemo

\* The caches as the decorator memoize creates them.
MemoInit ==
    /\ cache_maxsize = [f \in funcs |-> 2]
    /\ memoOp = [name |-> "none"]

UpdateMemoizationSizes ==
    \E all_panels \in PanelLists :
        /\ \A f \in funcs : cache_maxsize[f] + Len(all_panels) <= MaxCache
        /\ update_memoization_sizes(all_panels)

MemoNext == UpdateMemoizationSizes

\* The caches while another component is exercised.
MemoIdle ==
    /\ cache_maxsize = [f \in funcs |-> 2]
    /\ memoOp = [name |-> "idle"]

\* ---- Claims on the memoization caches ----

\* An element of all_panels that is an instance of CylindricalDetector.
IsCylindricalInstance(x) == x = "CylindricalDetector()"

\* C16: update_memoization_sizes(all_panels) increases the capacity of the
\* caches of _pixel_angles, _pixel_tth_gradient and _pixel_eta_gradient by the
\* number of CylindricalDetector instances in all_panels: k cylindrical
\* panels give k more entries per cache.
C16_CachesGrowByInstances ==
    memoOp.name = "update_memoization_sizes" =>
        \A f \in funcs :
            cache_maxsize[f] =
                memoOp.pre[f]
                    + Cardinality({ i \in DOMAIN memoOp.all_panels :
                                        IsCylindricalInstance(memoOp.all_panels[i]) })

(***************************************************************************)
(*              sector (ipfcolor/sphere_sector.py)                         *)
(*                                                                         *)
(* A direction is described by what the vector operations of numpy make of *)
(* it: its length class, and, for each barycenter and reference direction  *)
(* the sector may use, the norm of its cross product with the barycenter   *)
(* (in units of eps) and its azimuth phi around the barycenter, measured   *)
(* from the reference.  Angles are in units of pi/180, cosines in units of *)
(* 1/2.                                                                    *)
(***************************************************************************)

\* sphere_sector.py:32, eps, the unit of the norms.
eps == 1

\* sphere_sector.py:65-260, entry 0 (the number of triangles) of some
\* entries of pg2vertex.
pg2vertex == [c1 |-> 0, ci |-> 0, c2 |-> 2, c2h |-> 2, d2h |-> 1]

\* The barycenter and reference of the point group ("pg"), those of the Laue
\* group ("laue"), and the axis z with the reference (1, 0, 0) ("z").
Frames == {"pg", "laue", "z"}

\* Descriptions of a direction in one frame.
along == [tilt |-> 0, phi |-> 0]
Tilted(t, phi) == [tilt |-> t, phi |-> phi]

\* The directions a caller passes.
Directions ==
    { [scale |-> "unit", rel |-> [pg |-> along, laue |-> Tilted(2, 60), z |-> Tilted(2, 90)]],
      [scale |-> "unit", rel |-> [pg |-> Tilted(1, 60), laue |-> along, z |-> Tilted(2, 0)]],
      [scale |-> "unit", rel |-> [pg |-> Tilted(2, 120), laue |-> Tilted(1, 0), z |-> along]],
      [scale |-> "long", rel |-> [pg |-> Tilted(2, 0), laue |-> Tilted(2, 180), z |-> Tilted(2, -90)]],
      [scale |-> "zero", rel |-> [pg |-> along, laue |-> along, z |-> along]] }
MaxDirs == 2
DirArrays == UNION { [1..n -> Directions] : n \in 1..MaxDirs }

\* sphere_sector.py:316-327, check_norm: rows of norm above eps are made
\* unit vectors, in place; the others are left as they are.
check_norm(d) ==
    [i \in DOMAIN d |-> IF d[i].scale = "zero" THEN d[i]
                        ELSE [d[i] EXCEPT !.scale = "unit"]]

\* np.linalg.norm of the cross product of the barycenter of a frame with a
\* row.
cross_norm(row, frame) == IF row.scale = "zero" THEN 0 ELSE row.rel[frame].tilt

\* The cosine (in halves) of an azimuth, and numpy.arccos of such a cosine.
cos2(phi) ==
    CASE phi = 0 -> 2
      [] phi \in {60, -60} -> 1
      [] phi \in {90, -90} -> 0
      [] phi \in {120, -120} -> -1
      [] phi = 180 -> -2
np_arccos(c2) ==
    CASE c2 = 2 -> 0
      [] c2 = 1 -> 60
      [] c2 = 0 -> 90
      [] c2 = -1 -> 120
      [] c2 = -2 -> 180

\* sphere_sector.py:376-383, dp: the dot product of the two unit normals for
\* the rows with a cross product above eps, 0 for the others.
masked_dp_unmasked(row, frame) == cos2(row.rel[frame].phi)
masked_dp(row, frame) ==
    IF cross_norm(row, frame) > eps THEN cos2(row.rel[frame].phi) ELSE 0

\* sphere_sector.py:338-394, calc_azi_rho on normalised rows.  The reference
\* and the barycenter follow laueswitch (lines 356-367); the formula follows
\* self.ntriangle (line 374).
calc_azi_rho(s, d, laueswitch) ==
    LET frame == IF s.ntriangle = 0 THEN "z"
                 ELSE IF laueswitch THEN "laue" ELSE "pg"
    IN [i \in DOMAIN d |->
           IF s.ntriangle # 0
           THEN LET dp == masked_dp(d[i], frame)
                IN IF dp < 0 THEN np_arccos(dp) + np_pi ELSE np_arccos(dp)
           ELSE d[i].rel["z"].phi + np_pi]

\* sphere_sector.py:356-367, 374: what calc_azi_rho works with.  The
\* reference rx is the first vertex of the set laueswitch selects when
\* self.ntriangle is not 0 and (1, 0, 0) otherwise; the barycenter b is the
\* attribute laueswitch selects; the formula follows self.ntriangle.
azi_reference(s, laueswitch) ==
    IF s.ntriangle # 0
    THEN IF laueswitch THEN "vertices_laue[:,0]" ELSE "vertices[:,0]"
    ELSE "(1,0,0)"
azi_barycenter(s, laueswitch) ==
    IF laueswitch THEN s.barycenter_laue ELSE s.barycenter
azi_formula(s) == IF s.ntriangle # 0 THEN "arccos" ELSE "arctan2"
azi_geometry(s, laueswitch) ==
    [rx |-> azi_reference(s, laueswitch), b |-> azi_barycenter(s, laueswitch),
     formula |-> azi_formula(s)]

\* sphere_sector.py:438-450, calc_hue: rho/2/pi, as a fraction.
calc_hue(s, d, laueswitch) ==
    [i \in DOMAIN d |-> [num |-> calc_azi_rho(s, d, laueswitch)[i], den |-> 2 * np_pi]]

\* sphere_sector.py:299-309, the two barycenters: the normalised means of
\* the vertices of the point group and of the Laue group when the point group
\* has triangles, (0, 0, 1) twice when it has none.
barycenters(ntriangle) ==
    IF ntriangle # 0
    THEN [barycenter |-> "mean(vertices)", barycenter_laue |-> "mean(vertices_laue)"]
    ELSE [barycenter |-> "(0,0,1)", barycenter_laue |-> "(0,0,1)"]

\* sphere_sector.py:277-311, __init__.  With triangles in the point group
\* and none in the Laue group the mean over the empty vertex list raises, and
\* no sector exists.
SectorInit ==
    \E pgsym \in DOMAIN pg2vertex, lauesym \in DOMAIN pg2vertex, d \in DirArrays :
        /\ ~(pg2vertex[pgsym] # 0 /\ pg2vertex[lauesym] = 0)
        /\ sector = [pgsym |-> pgsym, lauesym |-> lauesym,
                     ntriangle |-> pg2vertex[pgsym],
                     ntriangle_laue |-> pg2vertex[lauesym]]
                    @@ barycenters(pg2vertex[pgsym])
        /\ dir3 = d
        /\ hueOp = [name |-> "none"]

\* A call of calc_azi_rho; check_norm has normalised the caller's array.
CalcAziRho ==
    \E laueswitch \in BOOLEAN :
        /\ dir3' = check_norm(dir3)
        /\ hueOp' = [name |-> "calc_azi_rho", laueswitch |-> laueswitch,
                     used |-> azi_geometry(sector, laueswitch),
                     ret |-> calc_azi_rho(sector, check_norm(dir3), laueswitch)]
        /\ UNCHANGED <<sector, notSector>>

\* A call of calc_hue.
CalcHue ==
    \E laueswitch \in BOOLEAN :
        /\ dir3' = check_norm(dir3)
        /\ hueOp' = [name |-> "calc_hue", laueswitch |-> laueswitch,
                     used |-> azi_geometry(sector, laueswitch),
                     ret |-> calc_hue(sector, check_norm(dir3), laueswitch)]
        /\ UNCHANGED <<sector, notSector>>

\* The caller takes another array of directions.
NewDirections ==
    \E d \in DirArrays :
        /\ dir3' = d
        /\ hueOp' = [name |-> "none"]
        /\ UNCHANGED <<sector, notSector>>

SectorNext ==
    \/ CalcAziRho
    \/ CalcHue
    \/ NewDirections

\* The sector while another component is exercised.
SectorIdle ==
    /\ sector = [pgsym |-> "c1", lauesym |-> "ci", ntriangle |-> 0,
                 ntriangle_laue |-> 0] @@ barycenters(0)
    /\ dir3 = <<>>
    /\ hueOp = [name |-> "idle"]

\* ---- Claims on the sector ----

\* The rows of the array whose cross product with the barycenter in use has
\* a norm of at most eps, for a sector with triangles.
DegenerateRows ==
    { i \in DOMAIN dir3 :
        cross_norm(dir3[i], IF hueOp.laueswitch THEN "laue" ELSE "pg") <= eps }
IsTriangleCall(name) == hueOp.name = name /\ sector.ntriangle # 0

\* C17 (as stated): in calc_azi_rho with a triangle count other than 0, every
\* row whose cross product with the barycenter has a norm of at most eps is
\* assigned rho = 0, so calc_hue returns 0 for it.
C17_AsStated ==
    /\ IsTriangleCall("calc_azi_rho") =>
           \A i \in DegenerateRows : hueOp.ret[i] = 0
    /\ IsTriangleCall("calc_hue") =>
           \A i \in DegenerateRows : hueOp.ret[i].num = 0

\* C17 (amended): such a row is assigned the dot product 0, so its rho is
\* arccos(0) = pi/2 and calc_hue returns 1/4 for it.
C17_DegenerateRowsQuarterTurn ==
    /\ IsTriangleCall("calc_azi_rho") =>
           \A i \in DegenerateRows : 2 * hueOp.ret[i] = np_pi
    /\ IsTriangleCall("calc_hue") =>
           \A i \in DegenerateRows : 4 * hueOp.ret[i].num = hueOp.ret[i].den

\* calc_hue was called on a sector with triangles for an array that holds the
\* barycenter direction and a row whose cross product has norm exactly eps.
C17_Witness ==
    /\ IsTriangleCall("calc_hue")
    /\ ~hueOp.laueswitch
    /\ \E i \in DegenerateRows : dir3[i].rel["pg"] = along /\ dir3[i].scale = "unit"
    /\ \E i \in DegenerateRows : dir3[i].rel["pg"].tilt = eps
    /\ \A i \in DegenerateRows : 4 * hueOp.ret[i].num = hueOp.ret[i].den

\* The geometry of the Laue-group entry alone: the triangle formula, the
\* first Laue vertex and the barycenter of the Laue vertices when the entry
\* has triangles; arctan2, (1, 0, 0) and the axis (0, 0, 1) when it has none.
LaueGeometry ==
    IF sector.ntriangle_laue # 0
    THEN [rx |-> "vertices_laue[:,0]", b |-> "mean(vertices_laue)",
          formula |-> "arccos"]
    ELSE [rx |-> "(1,0,0)", b |-> "(0,0,1)", formula |-> "arctan2"]
\* rho of every row of the array in that geometry.
LaueRho ==
    [i \in DOMAIN dir3 |->
        IF sector.ntriangle_laue # 0
        THEN LET dp == masked_dp(dir3[i], "laue")
             IN IF dp < 0 THEN np_arccos(dp) + np_pi ELSE np_arccos(dp)
        ELSE dir3[i].rel["z"].phi + np_pi]

\* C21: when laueswitch is true, calc_azi_rho uses only the geometry of the
\* Laue group: the formula (triangle or arctan2) and the reference (first
\* Laue vertex or (1, 0, 0)) follow the triangle count of the Laue-group
\* entry, and the barycenter is that of the Laue group, for every pair of
\* symbols a sector can be constructed with; so rho is the rho of that
\* geometry.
C21_LaueGeometryOnly ==
    (hueOp.name = "calc_azi_rho" /\ hueOp.laueswitch) =>
        /\ hueOp.used = LaueGeometry
        /\ hueOp.ret = LaueRho

(*                                                                         *)
(* The loop "for rr in _row_ranges(nr, nrpb)" of percentile, one iteration *)
(* of the generator at a time, for any memory budget from 0 on.  The       *)
(* pixel values written per band are followed in SpecStats.                *)
(***************************************************************************)

MaxBandRows == 4
MaxBudget == 4
\* The number of bands after which the loop is no longer followed.
MaxBands == 5

\* stats.py:89, the bytes of one row of the frame stack: nf*nc*dt.itemsize.
rsize(s) == s.nf * s.nc * s.itemsize

\* stats.py:85-90, percentile up to the loop: a series of nr x nc frames of
\* which nf are used, and the number of rows per band.
RowsInit ==
    \E nr \in 0..MaxBandRows, nc \in 1..2, nf \in 1..2, itemsize \in {1, 2} :
        /\ STATS_BUFFER \in 0..MaxBudget
        /\ StatsIdleSeries
        /\ rbSeries = [nr |-> nr, nc |-> nc, nf |-> nf, itemsize |-> itemsize]
        /\ rbNrpb = _rows_in_buffer(nf, nf * nc * itemsize)
        /\ rbI = 0
        /\ rbOut = <<>>
        /\ rbPc = "loop"

\* stats.py:161-169, one iteration of the while loop of _row_ranges: a band
\* is yielded and i moves on by m.
NextBand ==
    /\ rbPc = "loop"
    /\ rbI < rbSeries.nr
    /\ Len(rbOut) < MaxBands
    /\ rbOut' = Append(rbOut, row_range(rbSeries.nr, rbNrpb, rbI))
    /\ rbI' = rbI + rbNrpb
    /\ UNCHANGED <<rbSeries, rbNrpb, rbPc, notRows>>

\* stats.py:162, the loop ends when i has reached n; percentile returns.
LoopEnd ==
    /\ rbPc = "loop"
    /\ rbI >= rbSeries.nr
    /\ rbPc' = "done"
    /\ UNCHANGED <<rbSeries, rbNrpb, rbI, rbOut, notRows>>

RowsNext ==
    \/ NextBand
    \/ LoopEnd

\* No percentile is running.
RowsIdle ==
    /\ rbSeries = [nr |-> 0, nc |-> 1, nf |-> 1, itemsize |-> 1]
    /\ rbNrpb = 1
    /\ rbI = 0
    /\ rbOut = <<>>
    /\ rbPc = "idle"

\* ---- Claims on the row bands of percentile ----

BandRows(b) == b[2] - b[1]

\* C18: every row band of percentile satisfies band_rows * N * cols * itemsize
\* <= memory budget, except when a single row's frame stack already exceeds
\* the budget, in which case the band is exactly 1 row.
C18_BandFitsBudget ==
    \A k \in DOMAIN rbOut :
        \/ BandRows(rbOut[k]) * rsize(rbSeries) <= STATS_BUFFER
        \/ rsize(rbSeries) > STATS_BUFFER /\ BandRows(rbOut[k]) = 1

\* C19: for every row count R >= 0, every positive per-row byte size and every
\* memory budget >= 0, the band height is at least 1 and _row_ranges yields
\* finitely many bands, each non-empty, ascending, contiguous, and together
\* covering [0, R) exactly once (the last band truncated at R).
C19_BandsCoverRows ==
    /\ rbPc \in {"loop", "done"} => rbNrpb >= 1
    /\ Len(rbOut) <= rbSeries.nr
    /\ \A k \in DOMAIN rbOut :
           /\ rbOut[k][1] < rbOut[k][2]
           /\ rbOut[k][2] <= rbSeries.nr
           /\ rbOut[k][1] = IF k = 1 THEN 0 ELSE rbOut[k - 1][2]
    /\ rbPc = "done" =>
           \A r \in 0..(rbSeries.nr - 1) :
               Cardinality({ k \in DOMAIN rbOut :
                                 rbOut[k][1] <= r /\ r < rbOut[k][2] }) = 1

(***************************************************************************)
(*                          Specifications                                 *)
(***************************************************************************)

InitCal == CalInit /\ StatsIdle /\ RangesIdle /\ MatIdle /\ ResidIdle /\ EtaIdle /\ MemoIdle /\ SectorIdle /\ RowsIdle
NextCal == CalNext
SpecCal == InitCal /\ [][NextCal]_vars

InitStats == StatsInit /\ CalIdle /\ RangesIdle /\ MatIdle /\ ResidIdle /\ EtaIdle /\ MemoIdle /\ SectorIdle /\ RowsIdle
NextStats == StatsNext
SpecStats == InitStats /\ [][NextStats]_vars

InitRanges == RangesInit /\ CalIdle /\ StatsIdle /\ MatIdle /\ ResidIdle /\ EtaIdle /\ MemoIdle /\ SectorIdle /\ RowsIdle
NextRanges == RangesNext
SpecRanges == InitRanges /\ [][NextRanges]_vars

InitMat == MatInit /\ CalIdle /\ StatsIdle /\ RangesIdle /\ ResidIdle /\ EtaIdle /\ MemoIdle /\ SectorIdle /\ RowsIdle
NextMat == MatNext
SpecMat == InitMat /\ [][NextMat]_vars

InitResid == ResidInit /\ CalIdle /\ StatsIdle /\ RangesIdle /\ MatIdle /\ EtaIdle /\ MemoIdle /\ SectorIdle /\ RowsIdle
NextResid == ResidNext
SpecResid == InitResid /\ [][NextResid]_vars

InitEta == EtaInit /\ CalIdle /\ StatsIdle /\ RangesIdle /\ MatIdle /\ ResidIdle /\ MemoIdle /\ SectorIdle /\ RowsIdle
NextEta == EtaNext
SpecEta == InitEta /\ [][NextEta]_vars

InitMemo == MemoInit /\ CalIdle /\ StatsIdle /\ RangesIdle /\ MatIdle /\ ResidIdle /\ EtaIdle /\ SectorIdle /\ RowsIdle
NextMemo == MemoNext
SpecMemo == InitMemo /\ [][NextMemo]_vars

InitSector == SectorInit /\ CalIdle /\ StatsIdle /\ RangesIdle /\ MatIdle /\ ResidIdle /\ EtaIdle /\ MemoIdle /\ RowsIdle
NextSector == SectorNext
SpecSector == InitSector /\ [][NextSector]_vars

InitRows == RowsInit /\ CalIdle /\ RangesIdle /\ MatIdle /\ ResidIdle /\ EtaIdle /\ MemoIdle /\ SectorIdle
NextRows == RowsNext
SpecRows == InitRows /\ [][NextRows]_vars

=============================================================================
